---- MODULE Spec2Model ----
(***************************************************************************)
(* Model of the A2A request dispatcher of customer-profiler-agent          *)
(* (internal/a2a/handler.go, internal/a2a/models.go).                       *)
(*                                                                         *)
(* A request body is an abstract JSON value.  Texts on which the code does *)
(* character work (TrimSpace, ReplaceAll, Contains, ToLower) are sequences *)
(* of one-character strings; ids and method names are plain strings.       *)
(***************************************************************************)
EXTENDS Integers, Sequences, FiniteSets, TLC

(***************************************************************************)
(* Bounds                                                                  *)
(***************************************************************************)
MaxParts == 2
MaxProfiles == 2

(***************************************************************************)
(* strings package                                                         *)
(***************************************************************************)
Whitespace == {" ", "\t", "\n"}

RECURSIVE TrimLeft(_)
TrimLeft(s) ==
    IF s = <<>> THEN <<>>
    ELSE IF Head(s) \in Whitespace THEN TrimLeft(Tail(s)) ELSE s

RECURSIVE TrimRight(_)
TrimRight(s) ==
    IF s = <<>> THEN <<>>
    ELSE IF s[Len(s)] \in Whitespace THEN TrimRight(SubSeq(s, 1, Len(s) - 1)) ELSE s

TrimSpace(s) == TrimRight(TrimLeft(s))

HasPrefix(s, p) == Len(s) >= Len(p) /\ SubSeq(s, 1, Len(p)) = p

RECURSIVE Contains(_, _)
Contains(s, sub) ==
    IF HasPrefix(s, sub) THEN TRUE
    ELSE IF s = <<>> THEN FALSE
    ELSE Contains(Tail(s), sub)

\* strings.ReplaceAll(s, old, ""): leftmost non-overlapping occurrences removed.
RECURSIVE RemoveAll(_, _)
RemoveAll(s, old) ==
    IF s = <<>> THEN <<>>
    ELSE IF HasPrefix(s, old) THEN RemoveAll(SubSeq(s, Len(old) + 1, Len(s)), old)
    ELSE <<Head(s)>> \o RemoveAll(Tail(s), old)

LowerOf(c) ==
    CASE c = "A" -> "a" [] c = "C" -> "c" [] c = "G" -> "g"
      [] c = "P" -> "p" [] OTHER -> c

ToLower(s) == [i \in 1..Len(s) |-> LowerOf(s[i])]

\* strings.Join(texts, " ")
RECURSIVE Join(_)
Join(texts) ==
    IF texts = <<>> THEN <<>>
    ELSE IF Len(texts) = 1 THEN texts[1]
    ELSE texts[1] \o <<" ">> \o Join(Tail(texts))

(***************************************************************************)
(* JSON values as they arrive on the wire                                  *)
(***************************************************************************)
JAbsent == [t |-> "absent"]
JNull == [t |-> "null"]
JStr(s) == [t |-> "str", v |-> s]
JNum(n) == [t |-> "num", v |-> n]
JArr(s) == [t |-> "arr", v |-> s]

\* encoding/json into a Go string field: absent or null leave the zero value,
\* a JSON string is stored, anything else is a type error.
DecodeString(jv) ==
    CASE jv.t \in {"absent", "null"} -> [ok |-> TRUE, v |-> ""]
      [] jv.t = "str" -> [ok |-> TRUE, v |-> jv.v]
      [] OTHER -> [ok |-> FALSE, v |-> ""]

\* encoding/json into an interface{} field: null and absent give nil, every
\* other value keeps its dynamic type (string, float64, []interface{}, map).
GoNil == [t |-> "nil"]

DecodeIface(jv) ==
    IF jv.t \in {"absent", "null"} THEN GoNil ELSE jv

\* encoding/json into a *string field: absent or null leave nil, a JSON
\* string is stored behind a new pointer.
DecodeStringPtr(jv) ==
    CASE jv.t \in {"absent", "null"} -> [ok |-> TRUE, v |-> GoNil]
      [] jv.t = "str" -> [ok |-> TRUE, v |-> [t |-> "strptr", v |-> jv.v]]
      [] OTHER -> [ok |-> FALSE, v |-> GoNil]

(***************************************************************************)
(* internal/a2a/models.go: Go values                                       *)
(***************************************************************************)
StateWorking == "working"
StateInputRequired == "input-required"
StateCompleted == "completed"
StateFailed == "failed"
RoleUser == "user"
RoleAgent == "agent"

ZeroMessage ==
    [Kind |-> "", Role |-> "", Parts |-> <<>>, MessageID |-> "", TaskID |-> GoNil]

ZeroPart == [Kind |-> "", Text |-> GoNil, Data |-> GoNil]

ZeroMessageParams == [Message |-> ZeroMessage, Blocking |-> FALSE]

ZeroRequest == [JSONRPC |-> "", ID |-> "", Method |-> "", Params |-> GoNil]

\* TextPart stores a pointer to the string in the interface field Text.
TextPart(text) == [Kind |-> "text", Text |-> [t |-> "strptr", v |-> text], Data |-> GoNil]

(***************************************************************************)
(* encoding/json decoding into the structs of models.go                    *)
(***************************************************************************)
DecodePart(pj) ==
    CASE pj.t = "null" -> [ok |-> TRUE, v |-> ZeroPart]
      [] pj.t = "obj" ->
            LET k == DecodeString(pj.kind)
            IN  [ok |-> k.ok,
                 v |-> [Kind |-> k.v, Text |-> DecodeIface(pj.text),
                        Data |-> DecodeIface(pj.data)]]
      [] OTHER -> [ok |-> FALSE, v |-> ZeroPart]

DecodeParts(jv) ==
    CASE jv.t \in {"absent", "null"} -> [ok |-> TRUE, v |-> <<>>]
      [] jv.t = "arr" ->
            [ok |-> \A i \in 1..Len(jv.v) : DecodePart(jv.v[i]).ok,
             v |-> [i \in 1..Len(jv.v) |-> DecodePart(jv.v[i]).v]]
      [] OTHER -> [ok |-> FALSE, v |-> <<>>]

DecodeMessage(jv) ==
    CASE jv.t \in {"absent", "null"} -> [ok |-> TRUE, v |-> ZeroMessage]
      [] jv.t = "obj" ->
            LET k == DecodeString(jv.kind)
                r == DecodeString(jv.role)
                p == DecodeParts(jv.parts)
                m == DecodeString(jv.messageId)
                t == DecodeStringPtr(jv.taskId)
            IN  [ok |-> k.ok /\ r.ok /\ p.ok /\ m.ok /\ t.ok,
                 v |-> [Kind |-> k.v, Role |-> r.v, Parts |-> p.v,
                        MessageID |-> m.v, TaskID |-> t.v]]
      [] OTHER -> [ok |-> FALSE, v |-> ZeroMessage]

DecodeConfiguration(jv) ==
    CASE jv.t \in {"absent", "null"} -> [ok |-> TRUE, v |-> FALSE]
      [] jv.t = "obj" -> [ok |-> jv.blocking.t \in {"absent", "null", "bool"},
                          v |-> jv.blocking.t = "bool" /\ jv.blocking.v]
      [] OTHER -> [ok |-> FALSE, v |-> FALSE]

\* json.Unmarshal(bytes, &msgParams) for bytes holding the JSON value jv.
\* An absent params is marshalled as null.
DecodeMessageParams(jv) ==
    CASE jv.t \in {"absent", "null"} -> [ok |-> TRUE, v |-> ZeroMessageParams]
      [] jv.t = "obj" ->
            LET m == DecodeMessage(jv.message)
                c == DecodeConfiguration(jv.configuration)
            IN  [ok |-> m.ok /\ c.ok, v |-> [Message |-> m.v, Blocking |-> c.v]]
      [] OTHER -> [ok |-> FALSE, v |-> ZeroMessageParams]

\* Variant: envelope fields of the wrong JSON type are read as empty strings.
DecodeRequestLenient(jv) ==
    CASE jv.t = "null" -> [ok |-> TRUE, v |-> ZeroRequest]
      [] jv.t = "obj" ->
            [ok |-> TRUE,
             v |-> [JSONRPC |-> DecodeString(jv.jsonrpc).v, ID |-> DecodeString(jv.id).v,
                    Method |-> DecodeString(jv.method).v,
                    Params |-> DecodeIface(jv.params)]]
      [] OTHER -> [ok |-> FALSE, v |-> ZeroRequest]

\* c.ShouldBindJSON(&rpcReq) for a body holding the JSON value jv.
DecodeRequest(jv) ==
    CASE jv.t = "null" -> [ok |-> TRUE, v |-> ZeroRequest]
      [] jv.t = "obj" ->
            LET j == DecodeString(jv.jsonrpc)
                i == DecodeString(jv.id)
                m == DecodeString(jv.method)
            IN  [ok |-> j.ok /\ i.ok /\ m.ok,
                 v |-> [JSONRPC |-> j.v, ID |-> i.v, Method |-> m.v,
                        Params |-> DecodeIface(jv.params)]]
      [] OTHER -> [ok |-> FALSE, v |-> ZeroRequest]

\* json.Unmarshal(dataBytes, &dataArray), dataArray []map[string]interface{}
DecodeRecords(jv) ==
    CASE jv.t = "null" -> [ok |-> TRUE, v |-> <<>>]
      [] jv.t = "arr" ->
            [ok |-> \A i \in 1..Len(jv.v) : jv.v[i].t \in {"obj", "null"}, v |-> jv.v]
      [] OTHER -> [ok |-> FALSE, v |-> <<>>]

(***************************************************************************)
(* extractBusinessIdea                                                     *)
(***************************************************************************)
Generating == <<"g", "e", "n", "e", "r", "a", "t", "i", "n", "g">>
Creating == <<"c", "r", "e", "a", "t", "i", "n", "g">>
OpenP == <<"<", "p", ">">>
CloseP == <<"<", "/", "p", ">">>

CleanText(text) ==
    TrimSpace(RemoveAll(RemoveAll(TrimSpace(text), OpenP), CloseP))

IsNoise(cleanText) ==
    \/ Contains(ToLower(cleanText), Generating)
    \/ Contains(ToLower(cleanText), Creating)
    \/ cleanText = <<".">>
    \/ cleanText = <<".", ".">>
    \/ cleanText = <<".", ".", ".">>
    \/ cleanText = <<"c", "e", ".", ".", ".">>

\* Variant: the scan ends at the first noise record it meets.
RECURSIVE ScanHistoryStopAtNoise(_, _)
ScanHistoryStopAtNoise(dataArray, i) ==
    IF i = 0 THEN <<>>
    ELSE LET item == dataArray[i]
         IN  IF /\ item.t = "obj"
                /\ item.kind.t = "str" /\ item.kind.v = "text"
                /\ item.text.t = "str" /\ item.text.v # <<>>
             THEN LET cleanText == CleanText(item.text.v)
                  IN  IF IsNoise(cleanText) THEN <<>>
                      ELSE IF cleanText # <<>> THEN <<cleanText>>
                      ELSE ScanHistoryStopAtNoise(dataArray, i - 1)
             ELSE ScanHistoryStopAtNoise(dataArray, i - 1)

\* The loop "for i := len(dataArray) - 1; i >= 0; i--", i counted from 1.
RECURSIVE ScanHistory(_, _)
ScanHistory(dataArray, i) ==
    IF i = 0 THEN <<>>
    ELSE LET item == dataArray[i]
         IN  IF /\ item.t = "obj"
                /\ item.kind.t = "str" /\ item.kind.v = "text"
                /\ item.text.t = "str" /\ item.text.v # <<>>
             THEN LET cleanText == CleanText(item.text.v)
                  IN  IF IsNoise(cleanText) THEN ScanHistory(dataArray, i - 1)
                      ELSE IF cleanText # <<>> THEN <<cleanText>>
                      ELSE ScanHistory(dataArray, i - 1)
             ELSE ScanHistory(dataArray, i - 1)

\* What a part with Kind "text" appends to texts.
TextCandidate(part) ==
    IF part.Kind = "text" /\ part.Text.t # "nil"
       /\ part.Text.t = "str" /\ part.Text.v # <<>>
    THEN <<part.Text.v>> ELSE <<>>

\* Variant: only a string payload is decoded, any other payload is dropped.
DataCandidateStringOnly(part) ==
    IF part.Kind = "data" /\ part.Data.t = "str"
    THEN LET doc == part.Data.v
             dec == IF doc.t = "empty" THEN [ok |-> TRUE, v |-> <<>>]
                    ELSE DecodeRecords(doc)
         IN  IF dec.ok THEN ScanHistory(dec.v, Len(dec.v)) ELSE <<>>
    ELSE <<>>

\* What a part with Kind "data" appends to texts.  A string payload is the
\* bytes to decode (v is the JSON document the string holds, "empty" for the
\* empty string); any other decoded payload is marshalled and decoded again.
DataCandidate(part) ==
    IF part.Kind = "data" /\ part.Data.t # "nil"
    THEN LET doc == IF part.Data.t = "str" THEN part.Data.v ELSE part.Data
             dec == IF doc.t = "empty" THEN [ok |-> TRUE, v |-> <<>>]
                    ELSE DecodeRecords(doc)
         IN  IF dec.ok THEN ScanHistory(dec.v, Len(dec.v)) ELSE <<>>
    ELSE <<>>

\* Variant: each part's texts are put in front of those collected so far.
RECURSIVE CollectTextsReversed(_)
CollectTextsReversed(parts) ==
    IF parts = <<>> THEN <<>>
    ELSE CollectTextsReversed(Tail(parts))
         \o TextCandidate(Head(parts)) \o DataCandidate(Head(parts))

\* Variant: a data part that does not decode ends the walk over the parts.
RECURSIVE CollectTextsUntilUndecodable(_)
CollectTextsUntilUndecodable(parts) ==
    IF parts = <<>> THEN <<>>
    ELSE LET part == Head(parts)
             doc == IF part.Data.t = "str" THEN part.Data.v ELSE part.Data
         IN  IF part.Kind = "data" /\ part.Data.t # "nil"
                /\ doc.t # "empty" /\ ~DecodeRecords(doc).ok
             THEN <<>>
             ELSE TextCandidate(part) \o DataCandidate(part)
                  \o CollectTextsUntilUndecodable(Tail(parts))

RECURSIVE CollectTexts(_)
CollectTexts(parts) ==
    IF parts = <<>> THEN <<>>
    ELSE TextCandidate(Head(parts)) \o DataCandidate(Head(parts))
         \o CollectTexts(Tail(parts))

extractBusinessIdea(msg) == TrimSpace(Join(CollectTexts(msg.Parts)))

(***************************************************************************)
(* formatProfileResponse, createSuccessTaskResult, createErrorTaskResult   *)
(* A rendered text is the sequence of the fragments written to the builder.*)
(***************************************************************************)
RECURSIVE Bullets(_)
Bullets(items) ==
    IF items = <<>> THEN <<>>
    ELSE <<"- ">> \o TrimSpace(Head(items)) \o <<"\n">> \o Bullets(Tail(items))

Section(header, items) ==
    IF Len(items) > 0 THEN <<header>> \o Bullets(items) ELSE <<>>

ProfileBlock(profile) ==
    <<"**Demographics:**\n">>
    \o <<"- Age: ">> \o profile.Age \o <<"\n">>
    \o <<"- Gender: ">> \o profile.Gender \o <<"\n">>
    \o <<"- Location: ">> \o profile.Location \o <<"\n">>
    \o <<"- Occupation: ">> \o profile.Occupation \o <<"\n">>
    \o <<"- Income: ">> \o profile.Income \o <<"\n">>
    \o Section("\n**Pain Points:**\n", profile.PainPoints)
    \o Section("\n**Motivations:**\n", profile.Motivations)
    \o Section("\n**Interests:**\n", profile.Interests)
    \o Section("\n**Preferred Channels:**\n", profile.PreferredChannels)

RECURSIVE ProfileBlocks(_, _)
ProfileBlocks(profiles, i) ==
    IF i > Len(profiles) THEN <<>>
    ELSE (IF i > 1 THEN <<"\n---\n\n">> ELSE <<>>)
         \o ProfileBlock(profiles[i]) \o ProfileBlocks(profiles, i + 1)

formatProfileResponse(profileResp) ==
    IF Len(profileResp.Profiles) = 0 THEN <<"No customer profiles generated.">>
    ELSE <<"# Customer Profile for: ">> \o profileResp.BusinessIdea \o <<"\n\n">>
         \o ProfileBlocks(profileResp.Profiles, 1)

\* Variant: the artifact list is left empty.
createSuccessTaskResultNoArtifact(taskID, profileResp, artifactID, messageID, now) ==
    LET responseText == formatProfileResponse(profileResp)
    IN  [ID |-> taskID,
         Kind |-> "task",
         Status |-> [State |-> StateCompleted,
                     Timestamp |-> now,
                     Message |-> [Kind |-> "message",
                                  Role |-> RoleAgent,
                                  MessageID |-> messageID,
                                  TaskID |-> [t |-> "strptr", v |-> taskID],
                                  Parts |-> <<TextPart(responseText)>>]],
         Artifacts |-> <<>>]

createSuccessTaskResult(taskID, profileResp, artifactID, messageID, now) ==
    LET responseText == formatProfileResponse(profileResp)
    IN  [ID |-> taskID,
         Kind |-> "task",
         Status |-> [State |-> StateCompleted,
                     Timestamp |-> now,
                     Message |-> [Kind |-> "message",
                                  Role |-> RoleAgent,
                                  MessageID |-> messageID,
                                  TaskID |-> [t |-> "strptr", v |-> taskID],
                                  Parts |-> <<TextPart(responseText)>>]],
         Artifacts |-> <<[ArtifactID |-> artifactID,
                          Name |-> "Customer Profile Data",
                          Parts |-> <<TextPart(responseText)>>]>>]

\* Variant: a failure is reported in state input-required.
createErrorTaskResultInputRequired(taskID, errorMsg, now) ==
    [ID |-> taskID,
     Kind |-> "task",
     Status |-> [State |-> StateInputRequired,
                 Timestamp |-> now,
                 Message |-> [Kind |-> "text",
                              Role |-> RoleAgent,
                              MessageID |-> "",
                              TaskID |-> GoNil,
                              Parts |-> <<TextPart(errorMsg)>>]],
     Artifacts |-> <<>>]

createErrorTaskResult(taskID, errorMsg, now) ==
    [ID |-> taskID,
     Kind |-> "task",
     Status |-> [State |-> StateFailed,
                 Timestamp |-> now,
                 Message |-> [Kind |-> "text",
                              Role |-> RoleAgent,
                              MessageID |-> "",
                              TaskID |-> GoNil,
                              Parts |-> <<TextPart(errorMsg)>>]],
     Artifacts |-> <<>>]

PromptForIdea == <<"Please provide a business idea to generate customer profiles.">>

\* Variant: the cause is left out of the failure message.
GenerationFailedNoCause(err) == <<"Failed to generate customer profiles">>

GenerationFailed(err) == <<"Failed to generate customer profiles: ">> \o err

(***************************************************************************)
(* sendSuccessResponse, sendErrorResponse                                  *)
(***************************************************************************)
StatusOK == 200

\* Variant: the response id is not filled in.
SuccessResponseNoID(id, result) ==
    [status |-> StatusOK,
     response |-> [JSONRPC |-> "2.0", ID |-> "",
                   Result |-> [t |-> "TaskResult", v |-> result],
                   Error |-> GoNil]]

SuccessResponse(id, result) ==
    [status |-> StatusOK,
     response |-> [JSONRPC |-> "2.0", ID |-> id,
                   Result |-> [t |-> "TaskResult", v |-> result],
                   Error |-> GoNil]]

\* Variant: every RPC error is reported as an internal error.
ErrorResponseInternal(id, message, code) ==
    [status |-> 200,
     response |-> [JSONRPC |-> "2.0", ID |-> id,
                   Result |-> GoNil,
                   Error |-> [t |-> "map", code |-> -32603, message |-> message]]]

\* Variant: RPC errors are written with status 400.
ErrorResponseBadRequest(id, message, code) ==
    [status |-> 400,
     response |-> [JSONRPC |-> "2.0", ID |-> id,
                   Result |-> GoNil,
                   Error |-> [t |-> "map", code |-> code, message |-> message]]]

ErrorResponse(id, message, code) ==
    [status |-> StatusOK,
     response |-> [JSONRPC |-> "2.0", ID |-> id,
                   Result |-> GoNil,
                   Error |-> [t |-> "map", code |-> code, message |-> message]]]

(***************************************************************************)
(* Inputs: request bodies and outcomes of the generation capability        *)
(***************************************************************************)
TxtIdea == <<"A", " ", "p", "e", "t">>
TxtBlank == <<" ">>
TxtNoise == <<"G", "e", "n", "e", "r", "a", "t", "i", "n", "g", ".", ".", ".">>
TxtMarkup == <<"<", "p", ">", "s", "h", "o", "p", "<", "/", "p", ">">>

JPart(kind, text, data) == [t |-> "obj", kind |-> kind, text |-> text, data |-> data]

JRecord(kind, text) == [t |-> "obj", kind |-> kind, text |-> text]

PartInputs ==
    { JPart(JStr("text"), JStr(TxtIdea), JAbsent),
      JPart(JStr("text"), JStr(TxtBlank), JAbsent),
      JPart(JStr("text"), JNum(7), JAbsent),
      JPart(JStr("data"), JAbsent,
            JArr(<<JRecord(JStr("text"), JStr(TxtMarkup)),
                   JRecord(JStr("text"), JStr(TxtNoise))>>)),
      JPart(JStr("data"), JAbsent, JRecord(JStr("text"), JStr(TxtIdea))),
      JPart(JNum(1), JStr(TxtIdea), JAbsent) }

SeqsUpTo(S, n) == UNION { [1..k -> S] : k \in 0..n }

JMessage(parts) ==
    [t |-> "obj", kind |-> JStr("message"), role |-> JStr("user"), parts |-> parts,
     messageId |-> JAbsent, taskId |-> JAbsent]

MessageInputs ==
    { JMessage(JArr(ps)) : ps \in SeqsUpTo(PartInputs, MaxParts) }
    \cup { JMessage(JAbsent), JMessage(JStr("none")), JStr("hello") }

JConfiguration == [t |-> "obj", blocking |-> [t |-> "bool", v |-> TRUE]]

JParams(message, configuration) ==
    [t |-> "obj", message |-> message, configuration |-> configuration]

ParamsInputs ==
    { JParams(m, JConfiguration) : m \in MessageInputs }
    \cup { JParams(JMessage(JArr(<<JPart(JStr("text"), JStr(TxtIdea), JAbsent)>>)),
                   JStr("blocking")),
           JAbsent, JNull, JStr("params"), JArr(<<>>) }

\* What a body may carry at top level next to the envelope fields.
BareMessageInputs ==
    { JAbsent,
      JStr("hello"),
      JMessage(JArr(<<>>)),
      JMessage(JArr(<<JPart(JStr("text"), JStr(TxtIdea), JAbsent)>>)) }

VersionInputs == { JAbsent, JStr(""), JStr("2.0"), JStr("1.0"), JNum(2) }
IdInputs == { JAbsent, JStr("req-1"), JNum(1) }
MethodInputs ==
    { JAbsent, JStr("agent/task"), JStr("message/send"), JStr("tasks/get"), JNum(0) }

JBody(jsonrpc, id, method, params, message) ==
    [t |-> "obj", jsonrpc |-> jsonrpc, id |-> id, method |-> method,
     params |-> params, message |-> message, configuration |-> JAbsent]

\* "invalid" stands for bytes that are not a JSON document.
Bodies ==
    { JBody(j, i, m, p, b) :
        j \in VersionInputs, i \in IdInputs, m \in MethodInputs,
        p \in ParamsInputs, b \in BareMessageInputs }
    \cup { [t |-> "invalid"], JNull, JStr("hello"), JArr(<<>>) }

ProfileBare ==
    [Age |-> <<"30-50">>, Gender |-> <<"female">>, Location |-> <<"Urban">>,
     Occupation |-> <<"Manager">>, Income |-> <<"$75k">>,
     PainPoints |-> <<>>, Motivations |-> <<>>, Interests |-> <<>>,
     PreferredChannels |-> <<>>]

ProfileFull ==
    [Age |-> <<"18-25">>, Gender |-> <<"male">>, Location |-> <<"Rural">>,
     Occupation |-> <<"Student">>, Income |-> <<"$10k">>,
     PainPoints |-> << <<"time">>, <<" ", "choice">> >>,
     Motivations |-> << <<"quality", " ">> >>,
     Interests |-> << <<"travel">> >>,
     PreferredChannels |-> << <<"Instagram">> >>]

ProfileInputs == { ProfileBare, ProfileFull }

ErrInputs == { <<"no content generated">>, <<"failed to generate content: ", "timeout">> }

\* Outcome of GenerateCustomerProfiles as the handler sees it: an error, or a
\* ProfileResponse; BusinessIdea is filled in by the caller of this operator.
GenOutcomes ==
    { [isErr |-> TRUE, err |-> e, profiles |-> <<>>] : e \in ErrInputs }
    \cup { [isErr |-> FALSE, err |-> <<>>, profiles |-> ps] :
             ps \in SeqsUpTo(ProfileInputs, MaxProfiles) }

Uuids == { "uuid-a", "uuid-b" }
Times == { "2025-01-15T10:30:00Z", "2025-01-15T10:30:01Z" }

(***************************************************************************)
(* State of one HandleProfiler call                                        *)
(***************************************************************************)
VARIABLES
    pc,            \* position in HandleProfiler / handleTask / handleDirectMessage
    body,          \* bodyBytes, as the JSON value they hold
    readErr,       \* whether io.ReadAll fails on this request
    rpcReq,        \* the decoded JSONRPCRequest
    msgParams,     \* the decoded MessageParams
    businessIdea,  \* the extracted idea
    genResult,     \* (profileResp, err) returned by GenerateCustomerProfiles
    result,        \* the TaskResult built for this request
    extractCalls,  \* calls of extractBusinessIdea made for this request
    genCalls,      \* calls of GenerateCustomerProfiles made for this request
    sent,          \* what c.JSON has written for this request
    parked,        \* the state of a second call of HandleProfiler that is not running
    exMsg,         \* the message last given to extractBusinessIdea on its own
    exIdea,        \* what extractBusinessIdea returned for exMsg
    exPrev         \* the extraction before it, when exMsg was derived from one

callVars == <<pc, body, readErr, rpcReq, msgParams, businessIdea, genResult, result,
              extractCalls, genCalls, sent>>

exVars == <<exMsg, exIdea, exPrev>>

vars == <<pc, body, readErr, rpcReq, msgParams, businessIdea, genResult, result,
          extractCalls, genCalls, sent, parked, exMsg, exIdea, exPrev>>

NoOutcome == [t |-> "nil"]
NoResult == [t |-> "nil"]

\* The locals of a call of HandleProfiler that has not started.
IdleCall ==
    [pc |-> "idle", body |-> JNull, readErr |-> FALSE, rpcReq |-> ZeroRequest,
     msgParams |-> ZeroMessageParams, businessIdea |-> <<>>, genResult |-> NoOutcome,
     result |-> NoResult, extractCalls |-> 0, genCalls |-> 0, sent |-> <<>>]

NoExtraction == [via |-> "none", msg |-> ZeroMessage, idea |-> <<>>]

Init ==
    /\ pc = "idle"
    /\ body = JNull
    /\ readErr = FALSE
    /\ rpcReq = ZeroRequest
    /\ msgParams = ZeroMessageParams
    /\ businessIdea = <<>>
    /\ genResult = NoOutcome
    /\ result = NoResult
    /\ extractCalls = 0
    /\ genCalls = 0
    /\ sent = <<>>
    /\ parked = IdleCall
    /\ exMsg = ZeroMessage
    /\ exIdea = <<>>
    /\ exPrev = NoExtraction

\* gin calls HandleProfiler with a fresh context for each POST.
Receive ==
    /\ pc = "idle"
    /\ \E b \in Bodies, e \in BOOLEAN :
         /\ body' = b
         /\ readErr' = e
    /\ pc' = "read"
    /\ UNCHANGED <<rpcReq, msgParams, businessIdea, genResult, result,
                   extractCalls, genCalls, sent>>
    /\ UNCHANGED <<parked, exMsg, exIdea, exPrev>>

\* HandleProfiler returns: nothing of the request is retained.
Return ==
    /\ pc = "done"
    /\ pc' = "idle"
    /\ body' = JNull
    /\ readErr' = FALSE
    /\ rpcReq' = ZeroRequest
    /\ msgParams' = ZeroMessageParams
    /\ businessIdea' = <<>>
    /\ genResult' = NoOutcome
    /\ result' = NoResult
    /\ extractCalls' = 0
    /\ genCalls' = 0
    /\ sent' = <<>>
    /\ UNCHANGED <<parked, exMsg, exIdea, exPrev>>

\* io.ReadAll(c.Request.Body)
ReadBody ==
    /\ pc = "read"
    /\ IF readErr
       THEN /\ sent' = Append(sent, ErrorResponse("", <<"Failed to read request body">>, -32700))
            /\ pc' = "done"
       ELSE /\ pc' = "bind"
            /\ sent' = sent
    /\ UNCHANGED <<body, readErr, rpcReq, msgParams, businessIdea, genResult, result,
                   extractCalls, genCalls>>
    /\ UNCHANGED <<parked, exMsg, exIdea, exPrev>>

\* c.ShouldBindJSON(&rpcReq)
BindJSON ==
    /\ pc = "bind"
    /\ LET dec == IF body.t = "invalid" THEN [ok |-> FALSE, v |-> ZeroRequest]
                  ELSE DecodeRequest(body)
       IN  IF dec.ok
           THEN /\ rpcReq' = dec.v
                /\ pc' = "version"
           ELSE /\ rpcReq' = rpcReq
                /\ pc' = "direct"
    /\ UNCHANGED <<body, readErr, msgParams, businessIdea, genResult, result,
                   extractCalls, genCalls, sent>>
    /\ UNCHANGED <<parked, exMsg, exIdea, exPrev>>

ProtocolVersion == "2.0"

\* if rpcReq.JSONRPC != "2.0"
ValidateVersion ==
    /\ pc = "version"
    /\ IF rpcReq.JSONRPC # ProtocolVersion
       THEN /\ sent' = Append(sent, ErrorResponse(rpcReq.ID, <<"Invalid JSON-RPC version">>, -32600))
            /\ pc' = "done"
       ELSE /\ pc' = "route"
            /\ sent' = sent
    /\ UNCHANGED <<body, readErr, rpcReq, msgParams, businessIdea, genResult, result,
                   extractCalls, genCalls>>
    /\ UNCHANGED <<parked, exMsg, exIdea, exPrev>>

\* Variant: every named method is routed to the task handler.
IsTaskMethodAny(method) == method # ""

\* Variant: only "agent/task" is routed to the task handler.
IsTaskMethodAgentTaskOnly(method) == method = "agent/task"

IsTaskMethod(method) == method = "agent/task" \/ method = "message/send"

\* Variant: the params are decoded before the method is looked at.
RouteParamsFirst ==
    /\ pc = "route"
    /\ LET paramsJSON == IF rpcReq.Params.t = "nil" THEN JNull ELSE rpcReq.Params
       IN  IF ~DecodeMessageParams(paramsJSON).ok
           THEN /\ sent' = Append(sent, ErrorResponse(rpcReq.ID, <<"Invalid parameters">>, -32602))
                /\ pc' = "done"
           ELSE IF IsTaskMethod(rpcReq.Method)
           THEN /\ pc' = "task"
                /\ sent' = sent
           ELSE /\ sent' = Append(sent, ErrorResponse(rpcReq.ID,
                                         <<"Method not found: ", rpcReq.Method>>, -32601))
                /\ pc' = "done"
    /\ UNCHANGED <<body, readErr, rpcReq, msgParams, businessIdea, genResult, result,
                   extractCalls, genCalls>>
    /\ UNCHANGED <<parked, exMsg, exIdea, exPrev>>

\* switch rpcReq.Method
Route ==
    /\ pc = "route"
    /\ IF IsTaskMethod(rpcReq.Method)
       THEN /\ pc' = "task"
            /\ sent' = sent
       ELSE /\ sent' = Append(sent, ErrorResponse(rpcReq.ID,
                                     <<"Method not found: ", rpcReq.Method>>, -32601))
            /\ pc' = "done"
    /\ UNCHANGED <<body, readErr, rpcReq, msgParams, businessIdea, genResult, result,
                   extractCalls, genCalls>>
    /\ UNCHANGED <<parked, exMsg, exIdea, exPrev>>

\* json.Marshal of an interface{} value: nil is written as null.
MarshalIface(v) == IF v.t = "nil" THEN JNull ELSE v

\* Variant: the error of json.Unmarshal is dropped.
UnmarshalParamsUnchecked(params) ==
    [ok |-> TRUE, v |-> DecodeMessageParams(MarshalIface(params)).v]

\* json.Marshal(rpcReq.Params) followed by json.Unmarshal(paramsJSON, &msgParams)
UnmarshalParams(params) == DecodeMessageParams(MarshalIface(params))

\* The TaskResult built at the three places of a handler that build one.
BuildResult(taskID, idea, outcome, artifactID, messageID, now) ==
    IF idea = <<>>
    THEN createErrorTaskResult(taskID, PromptForIdea, now)
    ELSE IF outcome.isErr
    THEN createErrorTaskResult(taskID, GenerationFailed(outcome.err), now)
    ELSE createSuccessTaskResult(taskID,
             [BusinessIdea |-> idea, Profiles |-> outcome.profiles],
             artifactID, messageID, now)

(***************************************************************************)
(* handleTask                                                              *)
(***************************************************************************)
\* paramsJSON, msgParams and the -32602 answer
TaskParseParams ==
    /\ pc = "task"
    /\ LET dec == UnmarshalParams(rpcReq.Params)
       IN  IF dec.ok
           THEN /\ msgParams' = dec.v
                /\ pc' = "task_extract"
                /\ sent' = sent
           ELSE /\ sent' = Append(sent, ErrorResponse(rpcReq.ID, <<"Invalid parameters">>, -32602))
                /\ pc' = "done"
                /\ msgParams' = msgParams
    /\ UNCHANGED <<body, readErr, rpcReq, businessIdea, genResult, result,
                   extractCalls, genCalls>>
    /\ UNCHANGED <<parked, exMsg, exIdea, exPrev>>

\* businessIdea := h.extractBusinessIdea(msgParams.Message); if businessIdea == ""
TaskExtract ==
    /\ pc = "task_extract"
    /\ businessIdea' = extractBusinessIdea(msgParams.Message)
    /\ extractCalls' = extractCalls + 1
    /\ pc' = IF businessIdea' = <<>> THEN "task_build" ELSE "task_generate"
    /\ UNCHANGED <<body, readErr, rpcReq, msgParams, genResult, result, genCalls, sent>>
    /\ UNCHANGED <<parked, exMsg, exIdea, exPrev>>

\* h.geminiClient.GenerateCustomerProfiles(ctx, businessIdea) is entered
TaskGenCall ==
    /\ pc = "task_generate"
    /\ genCalls' = genCalls + 1
    /\ pc' = "task_wait"
    /\ UNCHANGED <<body, readErr, rpcReq, msgParams, businessIdea, genResult, result,
                   extractCalls, sent>>
    /\ UNCHANGED <<parked, exMsg, exIdea, exPrev>>

\* Variant: after an error the handler calls the capability again.
TaskGenReturnRetry ==
    /\ pc = "task_wait"
    /\ \E o \in GenOutcomes :
          /\ genResult' = o
          /\ pc' = IF o.isErr THEN "task_generate" ELSE "task_build"
    /\ UNCHANGED <<body, readErr, rpcReq, msgParams, businessIdea, result,
                   extractCalls, genCalls, sent>>
    /\ UNCHANGED <<parked, exMsg, exIdea, exPrev>>

\* GenerateCustomerProfiles returns (profileResp, err)
TaskGenReturn ==
    /\ pc = "task_wait"
    /\ \E o \in GenOutcomes : genResult' = o
    /\ pc' = "task_build"
    /\ UNCHANGED <<body, readErr, rpcReq, msgParams, businessIdea, result,
                   extractCalls, genCalls, sent>>
    /\ UNCHANGED <<parked, exMsg, exIdea, exPrev>>

\* result := h.createErrorTaskResult(rpcReq.ID, ...) or
\* result := h.createSuccessTaskResult(rpcReq.ID, profileResp)
TaskBuild ==
    /\ pc = "task_build"
    /\ \E now \in Times, artifactID \in Uuids, messageID \in Uuids :
         /\ artifactID # messageID
         /\ result' = BuildResult(rpcReq.ID, businessIdea, genResult,
                                  artifactID, messageID, now)
    /\ pc' = "task_send"
    /\ UNCHANGED <<body, readErr, rpcReq, msgParams, businessIdea, genResult,
                   extractCalls, genCalls, sent>>
    /\ UNCHANGED <<parked, exMsg, exIdea, exPrev>>

\* h.sendSuccessResponse(c, rpcReq.ID, result)
TaskSend ==
    /\ pc = "task_send"
    /\ sent' = Append(sent, SuccessResponse(rpcReq.ID, result))
    /\ pc' = "done"
    /\ UNCHANGED <<body, readErr, rpcReq, msgParams, businessIdea, genResult, result,
                   extractCalls, genCalls>>
    /\ UNCHANGED <<parked, exMsg, exIdea, exPrev>>

(***************************************************************************)
(* handleDirectMessage                                                     *)
(***************************************************************************)
DirectID == "direct-message"

\* json.Unmarshal(bodyBytes, &msgParams)
DirectParse ==
    /\ pc = "direct"
    /\ LET dec == IF body.t = "invalid" THEN [ok |-> FALSE, v |-> ZeroMessageParams]
                  ELSE DecodeMessageParams(body)
       IN  IF dec.ok
           THEN /\ msgParams' = dec.v
                /\ pc' = "direct_extract"
                /\ sent' = sent
           ELSE /\ sent' = Append(sent, ErrorResponse("", <<"Invalid request format">>, -32700))
                /\ pc' = "done"
                /\ msgParams' = msgParams
    /\ UNCHANGED <<body, readErr, rpcReq, businessIdea, genResult, result,
                   extractCalls, genCalls>>
    /\ UNCHANGED <<parked, exMsg, exIdea, exPrev>>

DirectExtract ==
    /\ pc = "direct_extract"
    /\ businessIdea' = extractBusinessIdea(msgParams.Message)
    /\ extractCalls' = extractCalls + 1
    /\ pc' = IF businessIdea' = <<>> THEN "direct_build" ELSE "direct_generate"
    /\ UNCHANGED <<body, readErr, rpcReq, msgParams, genResult, result, genCalls, sent>>
    /\ UNCHANGED <<parked, exMsg, exIdea, exPrev>>

DirectGenCall ==
    /\ pc = "direct_generate"
    /\ genCalls' = genCalls + 1
    /\ pc' = "direct_wait"
    /\ UNCHANGED <<body, readErr, rpcReq, msgParams, businessIdea, genResult, result,
                   extractCalls, sent>>
    /\ UNCHANGED <<parked, exMsg, exIdea, exPrev>>

DirectGenReturn ==
    /\ pc = "direct_wait"
    /\ \E o \in GenOutcomes : genResult' = o
    /\ pc' = "direct_build"
    /\ UNCHANGED <<body, readErr, rpcReq, msgParams, businessIdea, result,
                   extractCalls, genCalls, sent>>
    /\ UNCHANGED <<parked, exMsg, exIdea, exPrev>>

DirectBuild ==
    /\ pc = "direct_build"
    /\ \E now \in Times, artifactID \in Uuids, messageID \in Uuids :
         /\ artifactID # messageID
         /\ result' = BuildResult(DirectID, businessIdea, genResult,
                                  artifactID, messageID, now)
    /\ pc' = "direct_send"
    /\ UNCHANGED <<body, readErr, rpcReq, msgParams, businessIdea, genResult,
                   extractCalls, genCalls, sent>>
    /\ UNCHANGED <<parked, exMsg, exIdea, exPrev>>

DirectSend ==
    /\ pc = "direct_send"
    /\ sent' = Append(sent, SuccessResponse(DirectID, result))
    /\ pc' = "done"
    /\ UNCHANGED <<body, readErr, rpcReq, msgParams, businessIdea, genResult, result,
                   extractCalls, genCalls>>
    /\ UNCHANGED <<parked, exMsg, exIdea, exPrev>>

Next ==
    \/ Receive
    \/ ReadBody
    \/ BindJSON
    \/ ValidateVersion
    \/ Route
    \/ TaskParseParams
    \/ TaskExtract
    \/ TaskGenCall
    \/ TaskGenReturn
    \/ TaskBuild
    \/ TaskSend
    \/ DirectParse
    \/ DirectExtract
    \/ DirectGenCall
    \/ DirectGenReturn
    \/ DirectBuild
    \/ DirectSend
    \/ Return

Spec == Init /\ [][Next]_vars

(***************************************************************************)
(* Vocabulary of the properties                                            *)
(***************************************************************************)
\* The response written for the current request.
Resp == sent[Len(sent)].response

IsRPCError(r, code) ==
    /\ r.Error.t = "map"
    /\ r.Error.code = code
    /\ r.Result.t = "nil"

IsTaskResult(r) ==
    /\ r.Error.t = "nil"
    /\ r.Result.t = "TaskResult"

\* A JSON value a Go string field accepts.
WellTyped(jv) == jv.t \in {"absent", "null", "str"}

StrOf(jv) == IF jv.t = "str" THEN jv.v ELSE ""

\* The body is a JSON document that fits the Envelope {jsonrpc, id, method, params}.
ParsesAsEnvelope(b) ==
    \/ b.t = "null"
    \/ /\ b.t = "obj"
       /\ WellTyped(b.jsonrpc) /\ WellTyped(b.id) /\ WellTyped(b.method)

\* The body is a JSON document that fits Message-params {message, configuration}.
ParsesAsMessageParams(b) == b.t # "invalid" /\ DecodeMessageParams(b).ok

RequestID(b) == IF b.t = "obj" THEN StrOf(b.id) ELSE ""

Answered == pc = "done" /\ ~readErr

\* The text of the single part of the status message of a TaskResult.
StatusText(tr) == tr.Status.Message.Parts[1].Text.v

(***************************************************************************)
(* C1: a body that parses as an Envelope with protocolVersion "2.0" and a  *)
(* method other than "agent/task" and "message/send" is answered with an   *)
(* RPC error of code -32601, no result, and the request's id.              *)
(***************************************************************************)
C1_MethodNotFound ==
    ( /\ Answered
      /\ body.t = "obj"
      /\ ParsesAsEnvelope(body)
      /\ StrOf(body.jsonrpc) = "2.0"
      /\ StrOf(body.method) \notin {"agent/task", "message/send"} )
    => /\ Len(sent) = 1
       /\ IsRPCError(Resp, -32601)
       /\ Resp.ID = RequestID(body)

C1_Witness ==
    /\ Answered
    /\ body.t = "obj"
    /\ ParsesAsEnvelope(body)
    /\ StrOf(body.jsonrpc) = "2.0"
    /\ StrOf(body.method) = "tasks/get"
    /\ StrOf(body.id) = "req-1"
    /\ IsRPCError(Resp, -32601)
    /\ Resp.ID = "req-1"

(***************************************************************************)
(* C2 (as claimed): every envelope whose protocolVersion is anything other *)
(* than "2.0", a non-string JSON value included, is answered with an RPC   *)
(* error of code -32600 and the request's id, and neither the task handler *)
(* nor the generation capability is reached.                               *)
(***************************************************************************)
C2_InvalidVersion ==
    ( /\ Answered
      /\ body.t = "obj"
      /\ WellTyped(body.id) /\ WellTyped(body.method)
      /\ ~(body.jsonrpc.t = "str" /\ body.jsonrpc.v = "2.0") )
    => /\ IsRPCError(Resp, -32600)
       /\ Resp.ID = RequestID(body)
       /\ extractCalls = 0
       /\ genCalls = 0

(***************************************************************************)
(* C3: a body that fails to parse as an Envelope is parsed as a bare       *)
(* Message-params object and handled as a task request under the id        *)
(* "direct-message"; the answer is the RPC error -32700 with an empty id   *)
(* exactly when that second parse fails too.                                *)
(***************************************************************************)
C3_Fallback ==
    /\ ( Answered /\ ~ParsesAsEnvelope(body) )
       => IF ParsesAsMessageParams(body)
          THEN /\ extractCalls = 1
               /\ IsTaskResult(Resp)
               /\ Resp.ID = "direct-message"
               /\ Resp.Result.v.ID = "direct-message"
          ELSE /\ extractCalls = 0
               /\ genCalls = 0
               /\ IsRPCError(Resp, -32700)
               /\ Resp.ID = ""
    /\ ( Answered /\ ParsesAsEnvelope(body) ) => ~IsRPCError(Resp, -32700)

C3_Witness ==
    /\ Answered
    /\ body.t = "obj"
    /\ body.jsonrpc.t = "num"
    /\ ParsesAsMessageParams(body)
    /\ genCalls = 1
    /\ IsTaskResult(Resp)
    /\ Resp.ID = "direct-message"
    /\ Resp.Result.v.Status.State = "completed"

(***************************************************************************)
(* C4: in the task handler, whenever params does not parse as              *)
(* Message-params the answer is the RPC error -32602 with the request's    *)
(* id, and neither the extractor nor the generation capability is invoked. *)
(***************************************************************************)
C4_InvalidParams ==
    ( /\ Answered
      /\ body.t = "obj"
      /\ ParsesAsEnvelope(body)
      /\ StrOf(body.jsonrpc) = "2.0"
      /\ StrOf(body.method) \in {"agent/task", "message/send"}
      /\ ~DecodeMessageParams(MarshalIface(DecodeIface(body.params))).ok )
    => /\ IsRPCError(Resp, -32602)
       /\ Resp.ID = RequestID(body)
       /\ extractCalls = 0
       /\ genCalls = 0

C4_Witness ==
    /\ Answered
    /\ body.t = "obj"
    /\ ParsesAsEnvelope(body)
    /\ StrOf(body.jsonrpc) = "2.0"
    /\ StrOf(body.method) = "message/send"
    /\ body.params.t = "obj"
    /\ body.params.message.t = "obj"
    /\ body.params.message.parts.t = "arr"
    /\ StrOf(body.id) = "req-1"
    /\ IsRPCError(Resp, -32602)
    /\ Resp.ID = "req-1"
    /\ extractCalls = 0

(***************************************************************************)
(* C5 (as claimed): for every body that carries an id, the response id is  *)
(* that id, whatever the outcome.                                          *)
(***************************************************************************)
C5_IdEchoed ==
    ( /\ Answered
      /\ body.t = "obj"
      /\ body.id.t = "str" )
    => Resp.ID = body.id.v

(***************************************************************************)
(* C6 (as claimed): every response, RPC errors included, is framed inside  *)
(* a TaskResult whose id is the request's correlation token, or the        *)
(* synthetic id on the schema-less path.                                   *)
(***************************************************************************)
C6_Original ==
    pc = "done"
    => /\ Resp.Result.t = "TaskResult"
       /\ Resp.Result.v.ID =
             (IF ParsesAsEnvelope(body) THEN RequestID(body) ELSE "direct-message")

(***************************************************************************)
(* C6 (amended): every response that is not an RPC error is framed inside  *)
(* a TaskResult of kind "task" whose id is the response id, and that id is *)
(* the envelope's id on the envelope path and "direct-message" on the      *)
(* schema-less path.                                                       *)
(***************************************************************************)
C6_ResultFramed ==
    ( pc = "done" /\ Resp.Error.t = "nil" )
    => /\ Resp.Result.t = "TaskResult"
       /\ Resp.Result.v.Kind = "task"
       /\ Resp.Result.v.ID = Resp.ID
       /\ Resp.Result.v.ID =
             (IF ParsesAsEnvelope(body) THEN RequestID(body) ELSE "direct-message")

C6_Witness ==
    /\ pc = "done"
    /\ ParsesAsEnvelope(body)
    /\ RequestID(body) = "req-1"
    /\ IsTaskResult(Resp)
    /\ Resp.Result.v.Status.State = "failed"
    /\ Resp.Result.v.ID = "req-1"

(***************************************************************************)
(* C7: a call of HandleProfiler that has ended has sent exactly one        *)
(* response, with status 200, and nothing is sent before the end.          *)
(***************************************************************************)
C7_OneResponse ==
    /\ Len(sent) = (IF pc = "done" THEN 1 ELSE 0)
    /\ \A i \in 1..Len(sent) : sent[i].status = 200

C7_Witness ==
    /\ pc = "done"
    /\ Len(sent) = 1
    /\ sent[1].status = 200
    /\ IsRPCError(Resp, -32700)

(***************************************************************************)
(* C8: when the extractor returns the empty string (as it does for an      *)
(* empty part list) the response is a result carrying a failed TaskResult  *)
(* with the prompt-for-idea message, not an RPC error, and the generation  *)
(* capability is not invoked; on both paths.                               *)
(***************************************************************************)
C8_EmptyIdea ==
    /\ ( pc = "done" /\ extractCalls = 1 /\ businessIdea = <<>> )
       => /\ IsTaskResult(Resp)
          /\ Resp.Result.v.Status.State = "failed"
          /\ Len(Resp.Result.v.Status.Message.Parts) = 1
          /\ StatusText(Resp.Result.v) =
                <<"Please provide a business idea to generate customer profiles.">>
          /\ genCalls = 0
    /\ ( extractCalls = 1 /\ msgParams.Message.Parts = <<>> ) => businessIdea = <<>>

C8_Witness ==
    /\ pc = "done"
    /\ ~ParsesAsEnvelope(body)
    /\ extractCalls = 1
    /\ msgParams.Message.Parts = <<>>
    /\ businessIdea = <<>>
    /\ IsTaskResult(Resp)
    /\ Resp.Result.v.Status.State = "failed"
    /\ genCalls = 0

(***************************************************************************)
(* C9: with a non-empty idea the generation is called once and its outcome *)
(* alone decides the state: an error gives failed with the error text in   *)
(* the message, a success gives completed with no error object, for any    *)
(* number of profiles; no other state is produced.                         *)
(***************************************************************************)
C9_OutcomeDecidesState ==
    /\ ( pc = "done" /\ extractCalls = 1 /\ businessIdea # <<>> )
       => /\ genCalls = 1
          /\ IsTaskResult(Resp)
          /\ IF genResult.isErr
             THEN /\ Resp.Result.v.Status.State = "failed"
                  /\ StatusText(Resp.Result.v) =
                        <<"Failed to generate customer profiles: ">> \o genResult.err
             ELSE Resp.Result.v.Status.State = "completed"
    /\ ( pc = "done" /\ Resp.Result.t = "TaskResult" )
       => Resp.Result.v.Status.State \in {"completed", "failed"}

C9_Witness ==
    /\ pc = "done"
    /\ genCalls = 1
    /\ ~genResult.isErr
    /\ genResult.profiles = <<>>
    /\ IsTaskResult(Resp)
    /\ Resp.Result.v.Status.State = "completed"
    /\ StatusText(Resp.Result.v) = <<"No customer profiles generated.">>

MaxExtractParts == 3
MaxRecords == 2

TxtPadded == <<" ", "s", "h", "o", "p", " ">>
TxtShop == <<"s", "h", "o", "p">>
TxtHollow == <<"<", "p", ">", "<", "/", "p", ">">>
TxtDots == <<".", ".", ".">>

JTextPart(text) == JPart(JStr("text"), text, JAbsent)
JDataPart(data) == JPart(JStr("data"), JAbsent, data)

\* Parts of the messages with several parts.
ExtractPartInputs ==
    { JTextPart(JStr(TxtIdea)),
      JTextPart(JStr(TxtPadded)),
      JTextPart(JStr(TxtNoise)),
      JTextPart(JStr(TxtMarkup)),
      JTextPart(JNum(7)),
      JDataPart(JArr(<<JRecord(JStr("text"), JStr(TxtMarkup))>>)),
      JDataPart(JRecord(JStr("text"), JStr(TxtIdea))),
      JDataPart(JArr(<<JStr("hello")>>)),
      JDataPart(JStr([t |-> "invalid"])) }

\* Records of a conversation history.
RecordInputs ==
    { JRecord(JStr("text"), JStr(TxtIdea)),
      JRecord(JStr("text"), JStr(TxtMarkup)),
      JRecord(JStr("text"), JStr(TxtNoise)),
      JRecord(JStr("text"), JStr(TxtDots)),
      JRecord(JStr("text"), JStr(TxtHollow)),
      JRecord(JStr("text"), JStr(<<>>)),
      JRecord(JStr("status"), JStr(TxtIdea)),
      JNull }

ExtractMessageInputs ==
    { JMessage(JArr(ps)) : ps \in SeqsUpTo(ExtractPartInputs, MaxExtractParts) }
    \cup { JMessage(JArr(<<JDataPart(JArr(h))>>)) : h \in SeqsUpTo(RecordInputs, MaxRecords) }
    \cup { JMessage(JArr(<<JTextPart(JStr(s))>>)) : s \in {<<>>, TxtBlank, TxtDots, TxtHollow} }

\* extractBusinessIdea(msg) for a message decoded from a request.
ExtractFresh ==
    /\ exMsg = ZeroMessage
    /\ exPrev = NoExtraction
    /\ \E jm \in ExtractMessageInputs :
          /\ DecodeMessage(jm).ok
          /\ exMsg' = DecodeMessage(jm).v
    /\ exIdea' = extractBusinessIdea(exMsg')
    /\ exPrev' = NoExtraction
    /\ UNCHANGED <<callVars, parked>>

\* The idea comes back as the text part of a message decoded from JSON.
ExtractAgainDecoded ==
    /\ exPrev.via = "none"
    /\ exMsg' = DecodeMessage(JMessage(JArr(<<JTextPart(JStr(exIdea))>>))).v
    /\ exIdea' = extractBusinessIdea(exMsg')
    /\ exPrev' = [via |-> "decoded", msg |-> exMsg, idea |-> exIdea]
    /\ UNCHANGED <<callVars, parked>>

\* The idea comes back as the text part that TextPart builds.
ExtractAgainTextPart ==
    /\ exPrev.via = "none"
    /\ exMsg' = [ZeroMessage EXCEPT !.Kind = "message", !.Role = RoleUser,
                                    !.Parts = <<TextPart(exIdea)>>]
    /\ exIdea' = extractBusinessIdea(exMsg')
    /\ exPrev' = [via |-> "TextPart", msg |-> exMsg, idea |-> exIdea]
    /\ UNCHANGED <<callVars, parked>>

\* The string of a single text part comes back as a history of one record.
ExtractAsHistory ==
    /\ exPrev.via = "none"
    /\ Len(exMsg.Parts) = 1
    /\ exMsg.Parts[1].Kind = "text"
    /\ exMsg.Parts[1].Text.t = "str"
    /\ exMsg' = DecodeMessage(JMessage(JArr(<<JDataPart(JArr(
                    <<JRecord(JStr("text"), JStr(exMsg.Parts[1].Text.v))>>))>>))).v
    /\ exIdea' = extractBusinessIdea(exMsg')
    /\ exPrev' = [via |-> "history", msg |-> exMsg, idea |-> exIdea]
    /\ UNCHANGED <<callVars, parked>>

\* The caller is done with the extracted idea.
ExtractReturn ==
    /\ exMsg # ZeroMessage
    /\ exMsg' = ZeroMessage
    /\ exIdea' = <<>>
    /\ exPrev' = NoExtraction
    /\ UNCHANGED <<callVars, parked>>

NextExtract ==
    \/ ExtractFresh
    \/ ExtractReturn
    \/ ExtractAgainDecoded
    \/ ExtractAgainTextPart
    \/ ExtractAsHistory

SpecExtract == Init /\ [][NextExtract]_vars

\* What one part contributes, as the sentences of the specification give it.
PartCandidate(part) ==
    IF part.Kind = "text" /\ part.Text.t = "str" /\ part.Text.v # <<>>
    THEN <<part.Text.v>>
    ELSE IF part.Kind = "data" THEN DataCandidate(part) ELSE <<>>

\* The candidates of the parts in encounter order.
RECURSIVE Candidates(_)
Candidates(parts) ==
    IF parts = <<>> THEN <<>>
    ELSE Candidates(SubSeq(parts, 1, Len(parts) - 1)) \o PartCandidate(parts[Len(parts)])

(***************************************************************************)
(* C11: extraction never fails; the idea is the per-part candidates in     *)
(* encounter order, joined with one space and trimmed.  A text part with a *)
(* non-empty string contributes it unchanged, a data part contributes at   *)
(* most one candidate, a single text part yields its string trimmed, and   *)
(* an empty part list yields the empty string.                             *)
(***************************************************************************)
C11_Extract ==
    /\ exIdea = TrimSpace(Join(Candidates(exMsg.Parts)))
    /\ \A i \in 1..Len(exMsg.Parts) :
          LET part == exMsg.Parts[i]
          IN  /\ Len(DataCandidate(part)) <= 1
              /\ ( part.Kind = "text" /\ part.Text.t = "str" /\ part.Text.v # <<>> )
                 => CollectTexts(<<part>>) = <<part.Text.v>>
    /\ ( Len(exMsg.Parts) = 1 /\ exMsg.Parts[1].Kind = "text"
         /\ exMsg.Parts[1].Text.t = "str" )
       => exIdea = TrimSpace(exMsg.Parts[1].Text.v)
    /\ exMsg.Parts = <<>> => exIdea = <<>>

C11_Witness ==
    /\ Len(exMsg.Parts) = 3
    /\ exMsg.Parts[1].Kind = "text" /\ exMsg.Parts[1].Text = JStr(TxtIdea)
    /\ exMsg.Parts[2].Kind = "data" /\ DataCandidate(exMsg.Parts[2]) = <<TxtShop>>
    /\ exMsg.Parts[3].Kind = "text" /\ exMsg.Parts[3].Text = JStr(TxtPadded)
    /\ exIdea = TxtIdea \o <<" ">> \o TxtShop \o <<" ">> \o <<" ">> \o TxtShop

\* A data part whose payload decoded to a sequence of records.
IsHistoryPart(part) ==
    /\ part.Kind = "data"
    /\ part.Data.t = "arr"
    /\ \A i \in 1..Len(part.Data.v) : part.Data.v[i].t \in {"obj", "null"}

\* A record with kind "text" and a non-empty text that is not noise once
\* normalized.
NamedAcceptable(rec) ==
    /\ rec.t = "obj"
    /\ rec.kind.t = "str" /\ rec.kind.v = "text"
    /\ rec.text.t = "str" /\ rec.text.v # <<>>
    /\ ~IsNoise(CleanText(rec.text.v))

\* ... and whose normalized text is not empty.
Acceptable(rec) == NamedAcceptable(rec) /\ CleanText(rec.text.v) # <<>>

\* The normalized text of the highest-index record of history that Ok
\* accepts, nothing when it accepts none.
LatestAccepted(history, Ok(_)) ==
    LET accepted == { i \in 1..Len(history) : Ok(history[i]) }
    IN  IF accepted = {} THEN <<>>
        ELSE LET last == CHOOSE i \in accepted : \A j \in accepted : j <= i
             IN  <<CleanText(history[last].text.v)>>

\* The idea of a message with that single candidate list.
IdeaOf(candidate) == IF candidate = <<>> THEN <<>> ELSE TrimSpace(candidate[1])

(***************************************************************************)
(* C12 as stated: the candidate of a decoded data part is the normalized   *)
(* text of the highest-index record with kind "text", a non-empty text and *)
(* no noise after normalization; nothing when there is no such record.     *)
(***************************************************************************)
C12_Original ==
    \A i \in 1..Len(exMsg.Parts) :
        IsHistoryPart(exMsg.Parts[i])
        => DataCandidate(exMsg.Parts[i])
             = LatestAccepted(exMsg.Parts[i].Data.v, NamedAcceptable)

(***************************************************************************)
(* C12 amended: the candidate of a decoded data part is the normalized     *)
(* text of the highest-index record with kind "text", a non-empty text,    *)
(* a non-empty normalized text and no noise after normalization; rejected  *)
(* records are passed over, the scan ends at the first accepted one, and   *)
(* a part without such a record contributes nothing.                       *)
(***************************************************************************)
C12_LatestAccepted ==
    /\ \A i \in 1..Len(exMsg.Parts) :
          IsHistoryPart(exMsg.Parts[i])
          => DataCandidate(exMsg.Parts[i])
               = LatestAccepted(exMsg.Parts[i].Data.v, Acceptable)
    /\ ( Len(exMsg.Parts) = 1 /\ IsHistoryPart(exMsg.Parts[1]) )
       => exIdea = IdeaOf(LatestAccepted(exMsg.Parts[1].Data.v, Acceptable))

\* The newest record is noise, the one before is taken.
C12_Witness ==
    /\ Len(exMsg.Parts) = 1
    /\ IsHistoryPart(exMsg.Parts[1])
    /\ exMsg.Parts[1].Data.v
         = <<JRecord(JStr("text"), JStr(TxtMarkup)), JRecord(JStr("text"), JStr(TxtNoise))>>
    /\ exIdea = TxtShop

(***************************************************************************)
(* C13: extraction is idempotent: a message whose single text part carries *)
(* the idea extracted from m yields that same idea, also when that part is *)
(* built with TextPart.                                                    *)
(***************************************************************************)
C13_Idempotent ==
    exPrev.via \in {"decoded", "TextPart"} => exIdea = exPrev.idea

\* The part of C13 the code keeps: the text part holds the idea as a string.
C13_IdempotentDecoded ==
    exPrev.via = "decoded" => exIdea = exPrev.idea

\* An idea that came back empty from the part TextPart built.
C13_Lost ==
    /\ exPrev.via = "TextPart"
    /\ exPrev.idea = TxtIdea
    /\ exMsg.Parts = <<TextPart(TxtIdea)>>
    /\ exIdea = <<>>

\* The string of the single text part the history was built from.
HistorySource == exPrev.msg.Parts[1].Text.v

\* A string that, trimmed, holds no paragraph markup and is not noise.
IsPlain(s) ==
    /\ ~Contains(TrimSpace(s), OpenP)
    /\ ~Contains(TrimSpace(s), CloseP)
    /\ ~IsNoise(TrimSpace(s))

(***************************************************************************)
(* C14 as stated: for every string s, a message with the single text part  *)
(* s and a message with a single data part holding the one record          *)
(* {kind: "text", text: s} have the same idea.                             *)
(***************************************************************************)
C14_Original ==
    exPrev.via = "history" => exIdea = exPrev.idea

(***************************************************************************)
(* C14 amended: for every string s that, once trimmed, contains neither    *)
(* "<p>" nor "</p>" and is not noise, the message with the single text     *)
(* part s and the message with a single data part holding the one record   *)
(* {kind: "text", text: s} have the same idea.                             *)
(***************************************************************************)
C14_SameIdeaWhenPlain ==
    ( exPrev.via = "history" /\ IsPlain(HistorySource) ) => exIdea = exPrev.idea

C14_Witness ==
    /\ exPrev.via = "history"
    /\ HistorySource = TxtPadded
    /\ IsPlain(HistorySource)
    /\ exPrev.idea = TxtShop
    /\ exIdea = TxtShop

\* The JSON document a data payload holds.
PayloadOf(part) == IF part.Data.t = "str" THEN part.Data.v ELSE part.Data

\* A data part whose payload cannot be decoded to a sequence of records:
\* bytes that are no JSON, a value that is no array, or an array with an
\* element that is no record.
IsUndecodable(part) ==
    /\ part.Kind = "data"
    /\ part.Data.t # "nil"
    /\ \/ PayloadOf(part).t = "invalid"
       \/ PayloadOf(part).t \in {"obj", "str", "num", "bool"}
       \/ /\ PayloadOf(part).t = "arr"
          /\ \E i \in 1..Len(PayloadOf(part).v) :
                PayloadOf(part).v[i].t \notin {"obj", "null"}

\* parts without its i-th element.
Without(parts, i) == SubSeq(parts, 1, i - 1) \o SubSeq(parts, i + 1, Len(parts))

(***************************************************************************)
(* C15: a data part that cannot be decoded is skipped, and only that part: *)
(* the idea is the one of the message without it, so the candidates of the *)
(* parts before and after it are still contributed, and the extraction     *)
(* returns an idea all the same.                                           *)
(***************************************************************************)
C15_SkipUndecodable ==
    \A i \in 1..Len(exMsg.Parts) :
        IsUndecodable(exMsg.Parts[i])
        => /\ DataCandidate(exMsg.Parts[i]) = <<>>
           /\ exIdea = TrimSpace(Join(Candidates(Without(exMsg.Parts, i))))

\* Parts before and after an undecodable one both contribute.
C15_Witness ==
    /\ Len(exMsg.Parts) = 3
    /\ exMsg.Parts[1].Kind = "text" /\ exMsg.Parts[1].Text = JStr(TxtIdea)
    /\ IsUndecodable(exMsg.Parts[2])
    /\ exMsg.Parts[3].Kind = "data" /\ DataCandidate(exMsg.Parts[3]) = <<TxtShop>>
    /\ exIdea = TxtIdea \o <<" ">> \o TxtShop

(***************************************************************************)
(* Progress of one call.  The goroutine serving a request is scheduled     *)
(* until it returns or blocks, so every step of the handler is taken once  *)
(* it can be.  Nothing makes GenerateCustomerProfiles return: the handlers *)
(* pass it context.Background(), so TaskGenReturn and DirectGenReturn are  *)
(* left to the capability.                                                 *)
(***************************************************************************)
\* Requests that between them take every path through the handler.
SomeParams ==
    { JParams(JMessage(JArr(<<JTextPart(JStr(TxtIdea))>>)), JConfiguration),
      JParams(JMessage(JArr(<<JTextPart(JStr(TxtPadded))>>)), JConfiguration),
      JParams(JMessage(JArr(<<>>)), JConfiguration),
      JStr("params") }

SomeBodies ==
    { JBody(JStr("2.0"), i, m, p, JAbsent) :
        i \in {JAbsent, JStr("req-1")},
        m \in {JStr("agent/task"), JStr("message/send"), JStr("tasks/get")},
        p \in SomeParams }
    \cup { JBody(JStr("1.0"), JStr("req-1"), JStr("agent/task"), JAbsent, JAbsent),
           JBody(JNum(2), JStr("req-1"), JStr("agent/task"), JAbsent,
                 JMessage(JArr(<<JTextPart(JStr(TxtIdea))>>))),
           JBody(JStr("2.0"), JNum(1), JStr("agent/task"), JAbsent, JMessage(JArr(<<>>))),
           JBody(JStr("2.0"), JStr("req-1"), JNum(0), JAbsent, JStr("hello")),
           [t |-> "invalid"] }

\* A client posts one of these requests.
ReceiveSome ==
    /\ pc = "idle"
    /\ \E b \in SomeBodies, e \in BOOLEAN :
         /\ body' = b
         /\ readErr' = e
    /\ pc' = "read"
    /\ UNCHANGED <<rpcReq, msgParams, businessIdea, genResult, result,
                   extractCalls, genCalls, sent>>
    /\ UNCHANGED <<parked, exMsg, exIdea, exPrev>>

HandlerStep ==
    \/ ReadBody
    \/ BindJSON
    \/ ValidateVersion
    \/ Route
    \/ TaskParseParams
    \/ TaskExtract
    \/ TaskGenCall
    \/ TaskBuild
    \/ TaskSend
    \/ DirectParse
    \/ DirectExtract
    \/ DirectGenCall
    \/ DirectBuild
    \/ DirectSend
    \/ Return

\* GenerateCustomerProfiles returns to the handler that called it.
CapabilityStep ==
    \/ TaskGenReturn
    \/ DirectGenReturn

NextSome ==
    \/ ReceiveSome
    \/ HandlerStep
    \/ CapabilityStep

SpecFair == Init /\ [][NextSome]_vars /\ WF_vars(HandlerStep)

\* The capability has been called and has not returned.
AwaitingGeneration == pc \in {"task_wait", "direct_wait"}

(***************************************************************************)
(* C16: the generation call is bounded in time, so every request that      *)
(* reaches generation eventually receives a response, even when the        *)
(* capability never returns.                                               *)
(***************************************************************************)
C16_EventuallyAnswered == AwaitingGeneration ~> (pc = "done")

\* What the code gives instead: a request that is read is answered or is
\* waiting for the capability.
C16_AnsweredUnlessWaiting == (pc = "read") ~> (pc = "done" \/ AwaitingGeneration)

(***************************************************************************)
(* Two calls of HandleProfiler at once.  gin serves each request on its    *)
(* own goroutine; the variables of the call above are the locals of the    *)
(* goroutine that is running, parked holds the locals of the other one,    *)
(* and Switch hands the processor from one to the other at any step.       *)
(***************************************************************************)
CallState ==
    [pc |-> pc, body |-> body, readErr |-> readErr, rpcReq |-> rpcReq,
     msgParams |-> msgParams, businessIdea |-> businessIdea, genResult |-> genResult,
     result |-> result, extractCalls |-> extractCalls, genCalls |-> genCalls,
     sent |-> sent]

\* Variant: the extracted idea is kept in a field of the handler, which the
\* two calls share.
ResumeSharedIdea(saved, running) == [saved EXCEPT !.businessIdea = running.businessIdea]

\* What a goroutine finds when it runs again: A2AHandler has the single field
\* geminiClient and no package variable is written, so it finds its own
\* locals as it left them.
Resume(saved, running) == saved

Switch ==
    /\ parked' = CallState
    /\ pc' = Resume(parked, CallState).pc
    /\ body' = Resume(parked, CallState).body
    /\ readErr' = Resume(parked, CallState).readErr
    /\ rpcReq' = Resume(parked, CallState).rpcReq
    /\ msgParams' = Resume(parked, CallState).msgParams
    /\ businessIdea' = Resume(parked, CallState).businessIdea
    /\ genResult' = Resume(parked, CallState).genResult
    /\ result' = Resume(parked, CallState).result
    /\ extractCalls' = Resume(parked, CallState).extractCalls
    /\ genCalls' = Resume(parked, CallState).genCalls
    /\ sent' = Resume(parked, CallState).sent
    /\ UNCHANGED <<exMsg, exIdea, exPrev>>

ConcBodies ==
    { JBody(JStr("2.0"), JStr("req-1"), JStr("agent/task"),
            JParams(JMessage(JArr(<<JTextPart(JStr(TxtIdea))>>)), JConfiguration), JAbsent),
      JBody(JStr("2.0"), JStr("req-1"), JStr("message/send"),
            JParams(JMessage(JArr(<<JTextPart(JStr(TxtIdea))>>)), JConfiguration), JAbsent),
      JBody(JStr("2.0"), JAbsent, JStr("agent/task"),
            JParams(JMessage(JArr(<<JTextPart(JStr(TxtPadded))>>)), JConfiguration), JAbsent),
      JBody(JStr("2.0"), JStr("req-1"), JStr("agent/task"), JStr("params"), JAbsent),
      JBody(JStr("2.0"), JStr("req-1"), JStr("message/send"), JStr("params"), JAbsent),
      JBody(JStr("2.0"), JStr("req-1"), JStr("tasks/get"), JAbsent, JAbsent),
      JBody(JNum(2), JStr("req-1"), JStr("agent/task"), JAbsent,
            JMessage(JArr(<<JTextPart(JStr(TxtIdea))>>))) }

\* A client posts a request to the goroutine that is free.
ReceiveConc ==
    /\ pc = "idle"
    /\ \E b \in ConcBodies, e \in BOOLEAN :
         /\ body' = b
         /\ readErr' = e
    /\ pc' = "read"
    /\ UNCHANGED <<rpcReq, msgParams, businessIdea, genResult, result,
                   extractCalls, genCalls, sent>>
    /\ UNCHANGED <<parked, exMsg, exIdea, exPrev>>

NextConc ==
    \/ ReceiveConc
    \/ HandlerStep
    \/ CapabilityStep
    \/ Switch

SpecConc == Init /\ [][NextConc]_vars

\* The response to a request that is handled with no other request in
\* flight: body b, read failure e, outcome of the generation if it is called,
\* and the identifiers and the time drawn while the result is built.
AloneResponse(b, e, outcome, artifactID, messageID, now) ==
    IF e THEN ErrorResponse("", <<"Failed to read request body">>, -32700)
    ELSE IF b.t # "invalid" /\ DecodeRequest(b).ok
    THEN LET req == DecodeRequest(b).v
         IN  IF req.JSONRPC # ProtocolVersion
             THEN ErrorResponse(req.ID, <<"Invalid JSON-RPC version">>, -32600)
             ELSE IF ~IsTaskMethod(req.Method)
             THEN ErrorResponse(req.ID, <<"Method not found: ", req.Method>>, -32601)
             ELSE IF ~UnmarshalParams(req.Params).ok
             THEN ErrorResponse(req.ID, <<"Invalid parameters">>, -32602)
             ELSE SuccessResponse(req.ID,
                      BuildResult(req.ID,
                          extractBusinessIdea(UnmarshalParams(req.Params).v.Message),
                          outcome, artifactID, messageID, now))
    ELSE IF b.t # "invalid" /\ DecodeMessageParams(b).ok
    THEN SuccessResponse(DirectID,
             BuildResult(DirectID, extractBusinessIdea(DecodeMessageParams(b).v.Message),
                         outcome, artifactID, messageID, now))
    ELSE ErrorResponse("", <<"Invalid request format">>, -32700)

\* call has ended with one of the responses its request gets alone.
AnsweredAsAlone(call) ==
    /\ Len(call.sent) = 1
    /\ \E now \in Times, artifactID \in Uuids, messageID \in Uuids :
          call.sent[1] = AloneResponse(call.body, call.readErr, call.genResult,
                                       artifactID, messageID, now)

(***************************************************************************)
(* C17: concurrent requests are independent: under any interleaving of two *)
(* calls, each one ends with the response its request gets when it is      *)
(* handled alone with the same body and the same generation outcome.       *)
(***************************************************************************)
C17_Independent ==
    /\ pc = "done" => AnsweredAsAlone(CallState)
    /\ parked.pc = "done" => AnsweredAsAlone(parked)

\* A call has ended while the other one, for another idea, is in generation.
C17_Witness ==
    /\ pc = "done"
    /\ businessIdea = TxtIdea
    /\ IsTaskResult(Resp)
    /\ Resp.Result.v.Status.State = "completed"
    /\ parked.pc = "task_wait"
    /\ parked.businessIdea = TxtShop

\* Two envelopes that differ in the method only, one naming "agent/task" and
\* the other "message/send".
DifferInMethodOnly(a, b) ==
    /\ a.t = "obj" /\ b.t = "obj"
    /\ a.method.t = "str" /\ a.method.v = "agent/task"
    /\ b.method.t = "str" /\ b.method.v = "message/send"
    /\ [a EXCEPT !.method = b.method] = b

\* Same id, and the same error code or the same TaskResult state and message.
SameAnswer(r, q) ==
    /\ r.ID = q.ID
    /\ r.Error.t = q.Error.t
    /\ r.Result.t = q.Result.t
    /\ r.Error.t = "map" => r.Error.code = q.Error.code
    /\ r.Result.t = "TaskResult"
       => /\ r.Result.v.Status.State = q.Result.v.Status.State
          /\ StatusText(r.Result.v) = StatusText(q.Result.v)

(***************************************************************************)
(* C20: "agent/task" and "message/send" reach the same handler: two        *)
(* envelopes that differ only in the method get, for the same generation   *)
(* outcome, the same id and the same error code or the same TaskResult     *)
(* state and message.                                                      *)
(***************************************************************************)
C20_SameHandler ==
    ( /\ pc = "done" /\ parked.pc = "done"
      /\ ~readErr /\ ~parked.readErr
      /\ DifferInMethodOnly(body, parked.body)
      /\ ( genCalls = 1 /\ parked.genCalls = 1 ) => genResult = parked.genResult )
    => SameAnswer(Resp, parked.sent[1].response)

C20_Witness ==
    /\ pc = "done" /\ parked.pc = "done"
    /\ ~readErr /\ ~parked.readErr
    /\ DifferInMethodOnly(body, parked.body)
    /\ genResult = parked.genResult
    /\ genCalls = 1 /\ parked.genCalls = 1
    /\ ~genResult.isErr
    /\ Len(genResult.profiles) = 1
    /\ Resp.Result.v.Status.State = "completed"
    /\ parked.sent[1].response.Result.v.Status.State = "completed"

\* The request was understood and could not be fulfilled: no idea in the
\* message, or the generation failed.
SoftFailure ==
    /\ extractCalls = 1
    /\ businessIdea = <<>> \/ ( genCalls = 1 /\ genResult.isErr )

\* The params of an envelope do not fit Message-params.
MalformedParams(b) ==
    /\ b.t = "obj"
    /\ ~UnmarshalParams(DecodeIface(b.params)).ok

\* The body is no JSON, does not fit the Envelope, or its params do not fit.
MalformedRequest(b) ==
    \/ b.t = "invalid"
    \/ ~ParsesAsEnvelope(b)
    \/ MalformedParams(b)

C18_SoftFailureIsResult ==
    ( pc = "done" /\ SoftFailure )
    => /\ IsTaskResult(Resp)
       /\ Resp.Result.v.Status.State = "failed"

C18_MalformedIsError ==
    ( Answered /\ MalformedRequest(body) )
    => /\ Resp.Error.t = "map"
       /\ Resp.Result.t = "nil"

(***************************************************************************)
(* C18: a soft failure (no idea, generation failure) is always answered    *)
(* with a result holding a failed TaskResult and never with an RPC error;  *)
(* a request whose envelope or params are malformed is always answered     *)
(* with an RPC error and never with a TaskResult.                          *)
(***************************************************************************)
C18_Distinguishable == C18_SoftFailureIsResult /\ C18_MalformedIsError

\* A TaskResult in answer to an envelope whose version is a number.
C18_MalformedAnsweredWithResult ==
    /\ Answered
    /\ body.t = "obj"
    /\ body.jsonrpc = JNum(2)
    /\ IsTaskResult(Resp)

\* C18 for the bodies that fit the Envelope.
C18_DistinguishableInEnvelope ==
    ParsesAsEnvelope(body) => C18_Distinguishable

(***************************************************************************)
(* encoding/json on a TaskResult: json.Marshal, then json.Unmarshal into a *)
(* new TaskResult                                                          *)
(***************************************************************************)
\* An interface{} field tagged omitempty: left out when nil; a *string is
\* written as the string it points to.
MarshalOmitEmptyIface(v) ==
    CASE v.t = "nil" -> JAbsent
      [] v.t = "strptr" -> JStr(v.v)
      [] OTHER -> v

MarshalPart(part) ==
    JPart(JStr(part.Kind), MarshalOmitEmptyIface(part.Text), MarshalOmitEmptyIface(part.Data))

MarshalParts(parts) == JArr([i \in 1..Len(parts) |-> MarshalPart(parts[i])])

MarshalMessage(msg) ==
    [t |-> "obj", kind |-> JStr(msg.Kind), role |-> JStr(msg.Role),
     parts |-> MarshalParts(msg.Parts),
     messageId |-> IF msg.MessageID = "" THEN JAbsent ELSE JStr(msg.MessageID),
     taskId |-> IF msg.TaskID.t = "nil" THEN JAbsent ELSE JStr(msg.TaskID.v)]

MarshalArtifact(artifact) ==
    [t |-> "obj", artifactId |-> JStr(artifact.ArtifactID), name |-> JStr(artifact.Name),
     parts |-> MarshalParts(artifact.Parts)]

MarshalTaskResult(tr) ==
    [t |-> "obj", id |-> JStr(tr.ID), kind |-> JStr(tr.Kind),
     status |-> [t |-> "obj", state |-> JStr(tr.Status.State),
                 timestamp |-> JStr(tr.Status.Timestamp),
                 message |-> MarshalMessage(tr.Status.Message)],
     artifacts |-> IF tr.Artifacts = <<>> THEN JAbsent
                   ELSE JArr([i \in 1..Len(tr.Artifacts) |->
                                MarshalArtifact(tr.Artifacts[i])])]

DecodeArtifact(jv) ==
    [ArtifactID |-> DecodeString(jv.artifactId).v, Name |-> DecodeString(jv.name).v,
     Parts |-> DecodeParts(jv.parts).v]

DecodeTaskResult(jv) ==
    [ID |-> DecodeString(jv.id).v,
     Kind |-> DecodeString(jv.kind).v,
     Status |-> [State |-> DecodeString(jv.status.state).v,
                 Timestamp |-> DecodeString(jv.status.timestamp).v,
                 Message |-> DecodeMessage(jv.status.message).v],
     Artifacts |-> IF jv.artifacts.t = "arr"
                   THEN [i \in 1..Len(jv.artifacts.v) |-> DecodeArtifact(jv.artifacts.v[i])]
                   ELSE <<>>]

\* The TaskResult a client has after parsing the one that was built.
RoundTrip(tr) == DecodeTaskResult(MarshalTaskResult(tr))

\* A TaskResult has been built and is about to be sent.
Built == pc \in {"task_send", "direct_send"}

(***************************************************************************)
(* C19: serializing a TaskResult built for success or for failure and      *)
(* parsing it back gives a structure identical field for field to the      *)
(* original, for the completed and for the failed state.                   *)
(***************************************************************************)
C19_RoundTrip == Built => RoundTrip(result) = result

\* part with the string its Text points to in place of the pointer.
Dereferenced(part) ==
    IF part.Text.t = "strptr" THEN [part EXCEPT !.Text = JStr(part.Text.v)] ELSE part

DereferencedAll(parts) == [i \in 1..Len(parts) |-> Dereferenced(parts[i])]

\* What the round trip does keep: every field but the Go type of Text.
C19_RoundTripButText ==
    Built
    => /\ RoundTrip(result).ID = result.ID
       /\ RoundTrip(result).Kind = result.Kind
       /\ RoundTrip(result).Status.State = result.Status.State
       /\ RoundTrip(result).Status.Timestamp = result.Status.Timestamp
       /\ RoundTrip(result).Status.Message
            = [result.Status.Message EXCEPT
                 !.Parts = DereferencedAll(result.Status.Message.Parts)]
       /\ Len(RoundTrip(result).Artifacts) = Len(result.Artifacts)
       /\ \A i \in 1..Len(result.Artifacts) :
             RoundTrip(result).Artifacts[i]
               = [result.Artifacts[i] EXCEPT
                    !.Parts = DereferencedAll(result.Artifacts[i].Parts)]
       /\ RoundTrip(RoundTrip(result)) = RoundTrip(result)

\* A failed TaskResult whose text part comes back as a string.
C19_TextChanged ==
    /\ Built
    /\ result.Status.State = "failed"
    /\ result.Status.Message.Parts[1].Text.t = "strptr"
    /\ RoundTrip(result).Status.Message.Parts[1].Text.t = "str"
    /\ RoundTrip(result).Status.Message.Parts[1].Text.v = StatusText(result)

(***************************************************************************)
(* C21: within one request the steps are ordered and not repeated: the     *)
(* extraction has completed when the generation capability is invoked, the *)
(* capability is invoked at most once (no retry after an error), the       *)
(* TaskResult is built only once the generation outcome is known, and a    *)
(* response carrying a TaskResult is sent only once that result is built.  *)
(***************************************************************************)
C21_Ordered ==
    /\ extractCalls <= 1
    /\ genCalls <= 1
    /\ genCalls = 1 => ( extractCalls = 1 /\ businessIdea # <<>> )
    /\ genResult # NoOutcome => genCalls = 1
    /\ result # NoResult
       => /\ extractCalls = 1
          /\ businessIdea # <<>> => ( genCalls = 1 /\ genResult # NoOutcome )
    /\ \A i \in 1..Len(sent) :
          sent[i].response.Result.t = "TaskResult"
          => ( result # NoResult /\ sent[i].response.Result.v = result )

\* A generation that failed, called once and answered with a failed result.
C21_Witness ==
    /\ pc = "done"
    /\ extractCalls = 1
    /\ genCalls = 1
    /\ genResult.isErr
    /\ IsTaskResult(Resp)
    /\ Resp.Result.v = result
    /\ result.Status.State = "failed"

\* The keys json.Marshal writes for a JSONRPCResponse: result and error are
\* tagged omitempty, so a nil interface and a nil map are left out.
WireKeys(r) ==
    {"jsonrpc", "id"}
    \cup (IF r.Result.t # "nil" THEN {"result"} ELSE {})
    \cup (IF r.Error.t # "nil" THEN {"error"} ELSE {})

ReservedCodes == {-32700, -32600, -32601, -32602}

(***************************************************************************)
(* C22: every response carries exactly one of result and error; every      *)
(* error object carries a code and a message, and the code is one of       *)
(* -32700, -32600, -32601 and -32602.                                      *)
(***************************************************************************)
C22_ResultXorError ==
    \A i \in 1..Len(sent) :
        LET r == sent[i].response
        IN  /\ Cardinality(WireKeys(r) \cap {"result", "error"}) = 1
            /\ r.Error.t # "nil"
               => /\ DOMAIN r.Error = {"t", "code", "message"}
                  /\ r.Error.code \in ReservedCodes
                  /\ r.Error.message # <<>>
                  /\ r.Result.t = "nil"
            /\ r.Result.t # "nil" => r.Result.t = "TaskResult"

C22_Witness ==
    /\ pc = "done"
    /\ Len(sent) = 1
    /\ WireKeys(Resp) = {"jsonrpc", "id", "error"}
    /\ Resp.Error.code = -32602
    /\ Resp.Error.message = <<"Invalid parameters">>

\* The body fits the Envelope and was read.
EnvelopeRead == ~readErr /\ body.t = "obj" /\ ParsesAsEnvelope(body)

\* The method of the envelope is none of the two the dispatcher accepts.
UnknownMethod == StrOf(body.method) \notin {"agent/task", "message/send"}

\* The params of this request have been decoded: the call is past the
\* decoding in handleTask, or has ended with its -32602 or with a TaskResult.
ParamsInspected ==
    \/ pc \in {"task_extract", "task_generate", "task_wait", "task_build", "task_send"}
    \/ /\ pc = "done"
       /\ IsRPCError(Resp, -32602) \/ IsTaskResult(Resp)

(***************************************************************************)
(* C23: validation is ordered version, then method, then params: an        *)
(* envelope with a wrong version and an unknown method is answered with    *)
(* -32600, an envelope with an unknown method and params that cannot be    *)
(* parsed is answered with -32601, and the params are not inspected before *)
(* the version and the method are accepted.                                *)
(***************************************************************************)
C23_ValidationOrder ==
    /\ ( pc = "done" /\ EnvelopeRead
         /\ StrOf(body.jsonrpc) # "2.0" /\ UnknownMethod )
       => IsRPCError(Resp, -32600)
    /\ ( pc = "done" /\ EnvelopeRead
         /\ StrOf(body.jsonrpc) = "2.0" /\ UnknownMethod /\ MalformedParams(body) )
       => IsRPCError(Resp, -32601)
    /\ ( EnvelopeRead /\ ParamsInspected )
       => ( StrOf(body.jsonrpc) = "2.0" /\ ~UnknownMethod )
    /\ ( EnvelopeRead /\ pc \in {"bind", "version", "route", "task"} )
       => msgParams = ZeroMessageParams

\* An unknown method with params that do not parse: -32601.
C23_Witness ==
    /\ pc = "done"
    /\ EnvelopeRead
    /\ StrOf(body.jsonrpc) = "2.0"
    /\ StrOf(body.method) = "tasks/get"
    /\ MalformedParams(body)
    /\ IsRPCError(Resp, -32601)

\* A wrong version with an unknown method: -32600.
C23_WrongVersionFirst ==
    /\ pc = "done"
    /\ EnvelopeRead
    /\ StrOf(body.jsonrpc) = "1.0"
    /\ StrOf(body.method) = "tasks/get"
    /\ MalformedParams(body)
    /\ IsRPCError(Resp, -32600)

====
